---- MODULE Spec2Model ----
(***************************************************************************)
(* Verification model of VerdantView's group-trip core:                    *)
(*   - the settlement engine   (src/src/lib/utils/settlement.ts)           *)
(*   - the local store's trip / import / export operations                 *)
(*                              (src/src/lib/db/db.ts)                     *)
(*   - the "Merge Expenses Here" handler (src/src/app/trips/[id]/page.tsx) *)
(*                                                                         *)
(* Money.  Amounts are JavaScript numbers.  The model counts money in      *)
(* hundredths (0.01), so the code's tolerance 0.01 is Tolerance = 1.       *)
(* average = total / members.length is not integral, so every balance and  *)
(* every settlement amount of the model is the code's value multiplied by  *)
(* n = members.length; a comparison  x < 0.01  of the code is the          *)
(* comparison  n*x < n*Tolerance  of the model.  The arithmetic is exact   *)
(* (rational); IEEE rounding of the last bits is not modelled.             *)
(***************************************************************************)
EXTENDS Integers, Sequences, FiniteSets, TLC

\* ------------------------------------------------------------------------
\* Bounds of the model
\* ------------------------------------------------------------------------
MaxMembers == 3
MaxExpenses == 3
MaxAmount == 4

\* largest key the trips / trip_expenses / other stores hand out in a run
MaxTripKey == 2
MaxTripExpenseKey == 2
MaxOtherKey == 2
MaxCategoryKey == 17
MaxUpdates == 2

\* 0.01 of settlement.ts, in hundredths
Tolerance == 1

\* member names a roster is built from; "x" is a payer on no roster
Names == {"a", "b", "c"}
Payers == Names \cup {"x"}

\* ------------------------------------------------------------------------
\* Generic helpers
\* ------------------------------------------------------------------------
Range(s) == {s[i] : i \in DOMAIN s}

Abs(x) == IF x < 0 THEN -x ELSE x

Min(x, y) == IF x < y THEN x ELSE y

RECURSIVE SumAmounts(_)
SumAmounts(s) ==
    IF s = << >> THEN 0 ELSE s[1].amount + SumAmounts(Tail(s))

RECURSIVE SumOver(_, _)
SumOver(f, S) ==
    IF S = {} THEN 0
    ELSE LET x == CHOOSE y \in S : TRUE IN f[x] + SumOver(f, S \ {x})

SeqsUpTo(S, n) == UNION {[1..k -> S] : k \in 0..n}

\* ------------------------------------------------------------------------
\* Settlement engine (settlement.ts)
\* ------------------------------------------------------------------------

\* mutant: "=" written for "+=" - the last expense of a payer wins
RECURSIVE memberTotalsAssign(_, _)
memberTotalsAssign(members, exps) ==
    IF exps = << >> THEN [m \in Range(members) |-> 0]
    ELSE LET e == exps[Len(exps)]
             before == memberTotalsAssign(members, SubSeq(exps, 1, Len(exps) - 1))
         IN IF e.payerName \in DOMAIN before
            THEN [before EXCEPT ![e.payerName] = e.amount]
            ELSE before

\* line 14: memberTotals = {} inherits the properties of Object.prototype;
\* read under such a name it yields a function, not undefined
InheritedKeys == {"constructor"}

\* line 18 on an inherited property: function += number is a string, kept
\* as an own property of the map
NotANumber == "function Object() { [native code] }"

\* lines 14-20: a map keyed by NAME (duplicate roster names share one
\* entry); an expense is skipped if the map yields undefined for its payer
RECURSIVE memberTotals(_, _)
memberTotals(members, exps) ==
    IF exps = << >> THEN [m \in Range(members) |-> 0]
    ELSE LET e == exps[Len(exps)]
             before == memberTotals(members, SubSeq(exps, 1, Len(exps) - 1))
         IN IF e.payerName \in Range(members)
            THEN [before EXCEPT ![e.payerName] = @ + e.amount]
            ELSE IF e.payerName \in DOMAIN before
            THEN before
            ELSE IF e.payerName \in InheritedKeys
            THEN (e.payerName :> NotANumber) @@ before
            ELSE before

\* lines 23-27: the sum over Object.values(memberTotals) is a string as
\* soon as one value is, and the average then NaN
averageIsNaN(members, exps) ==
    ~(DOMAIN memberTotals(members, exps) \subseteq Range(members))

\* lines 23-26: sum of the map's values, one per distinct name
totalTripExpense(members, exps) ==
    LET mt == memberTotals(members, exps) IN SumOver(mt, DOMAIN mt)

\* mutant: balance = average - spent
balancesFlipped(members, exps) ==
    LET mt == memberTotals(members, exps)
        n == Len(members)
        total == totalTripExpense(members, exps)
    IN [i \in 1..n |-> [name |-> members[i],
                        balance |-> total - n * mt[members[i]]]]

\* mutant: totals kept per roster POSITION, a payer credited at the first
\* position carrying the name (members.indexOf)
balancesByIndex(members, exps) ==
    LET mt == memberTotals(members, exps)
        n == Len(members)
        total == totalTripExpense(members, exps)
        first(i) == \A j \in 1..(i - 1) : members[j] # members[i]
    IN [i \in 1..n |-> [name |-> members[i],
                        balance |-> n * (IF first(i) THEN mt[members[i]] ELSE 0)
                                    - total]]

\* lines 27-34: balance = memberTotals[name] - total / n, kept times n
balances(members, exps) ==
    LET mt == memberTotals(members, exps)
        n == Len(members)
        total == totalTripExpense(members, exps)
    IN [i \in 1..n |-> [name |-> members[i],
                        balance |-> n * mt[members[i]] - total]]

\* Array.prototype.sort is stable: insert x behind every element whose key
\* is not greater.  sign = 1 sorts ascending, sign = -1 descending.
RECURSIVE InsertSorted(_, _, _)
InsertSorted(sorted, x, sign) ==
    IF sorted = << >> THEN <<x>>
    ELSE IF sign * sorted[1].balance <= sign * x.balance
         THEN <<sorted[1]>> \o InsertSorted(Tail(sorted), x, sign)
         ELSE <<x>> \o sorted

RECURSIVE SortByBalance(_, _)
SortByBalance(s, sign) ==
    IF s = << >> THEN << >>
    ELSE InsertSorted(SortByBalance(SubSeq(s, 1, Len(s) - 1), sign),
                      s[Len(s)], sign)

\* mutant: the filter tests the size of the balance, not its sign
debtorsAbs(bals, n) ==
    SortByBalance(SelectSeq(bals, LAMBDA b : Abs(b.balance) > n * Tolerance), 1)

\* lines 37-39: balance < -0.01, most negative first
debtors(bals, n) ==
    SortByBalance(SelectSeq(bals, LAMBDA b : b.balance < -(n * Tolerance)), 1)

\* lines 40-42: balance > 0.01, most positive first
creditors(bals, n) ==
    SortByBalance(SelectSeq(bals, LAMBDA b : b.balance > n * Tolerance), -1)

\* mutant: a transfer moves at most one hundredth per roster entry
amountToPayCapped(debtor, creditor) ==
    Min(Min(Abs(debtor.balance), creditor.balance), 1)

\* line 53
amountToPay(debtor, creditor) ==
    Min(Abs(debtor.balance), creditor.balance)

\* mutant: the transfer is recorded in the wrong direction
LoopStepSwapped(st, n) ==
    LET debtor == st.debtors[st.dIndex]
        creditor == st.creditors[st.cIndex]
        amt == amountToPay(debtor, creditor)
        dBal == debtor.balance + amt
        cBal == creditor.balance - amt
    IN [debtors |-> [st.debtors EXCEPT ![st.dIndex].balance = dBal],
        creditors |-> [st.creditors EXCEPT ![st.cIndex].balance = cBal],
        dIndex |-> IF Abs(dBal) < n * Tolerance THEN st.dIndex + 1 ELSE st.dIndex,
        cIndex |-> IF Abs(cBal) < n * Tolerance THEN st.cIndex + 1 ELSE st.cIndex,
        settlements |-> IF amt > n * Tolerance
                        THEN Append(st.settlements,
                                    [from |-> creditor.name, to |-> debtor.name,
                                     amount |-> amt])
                        ELSE st.settlements]

\* lines 50-67: one iteration of the matching loop
LoopStep(st, n) ==
    LET debtor == st.debtors[st.dIndex]
        creditor == st.creditors[st.cIndex]
        amt == amountToPay(debtor, creditor)
        dBal == debtor.balance + amt
        cBal == creditor.balance - amt
    IN [debtors |-> [st.debtors EXCEPT ![st.dIndex].balance = dBal],
        creditors |-> [st.creditors EXCEPT ![st.cIndex].balance = cBal],
        dIndex |-> IF Abs(dBal) < n * Tolerance THEN st.dIndex + 1 ELSE st.dIndex,
        cIndex |-> IF Abs(cBal) < n * Tolerance THEN st.cIndex + 1 ELSE st.cIndex,
        settlements |-> IF amt > n * Tolerance
                        THEN Append(st.settlements,
                                    [from |-> debtor.name, to |-> creditor.name,
                                     amount |-> amt])
                        ELSE st.settlements]

\* line 49: while (dIndex < debtors.length && cIndex < creditors.length)
RECURSIVE Loop(_, _)
Loop(st, n) ==
    IF st.dIndex <= Len(st.debtors) /\ st.cIndex <= Len(st.creditors)
    THEN Loop(LoopStep(st, n), n)
    ELSE st.settlements

\* lines 7-71
calculateSettlements(members, exps) ==
    IF Len(members) = 0 THEN << >>
    \* lines 31-42: every balance is NaN and passes neither filter
    ELSE IF averageIsNaN(members, exps) THEN << >>
    ELSE LET n == Len(members)
             bals == balances(members, exps)
         IN Loop([debtors |-> debtors(bals, n),
                  creditors |-> creditors(bals, n),
                  dIndex |-> 1, cIndex |-> 1,
                  settlements |-> << >>], n)

\* ------------------------------------------------------------------------
\* The local store (db.ts): IndexedDB object stores and their records
\* ------------------------------------------------------------------------

\* lines 19-28
defaultCategories ==
    <<"Groceries", "Dining", "Travel", "Utilities", "Shopping", "Food",
      "Medicine", "Other">>

\* lines 48-104: the object stores; all but "settings" are autoIncrement
StoreNames ==
    {"expenses", "categories", "reminders", "settings",
     "savings_transactions", "trips", "trip_expenses"}

\* a record that carries no id property (a key path that yields no value)
NoId == 0

\* const { id, ...rest } = record
StripId(rec) == [rec EXCEPT !.id = NoId]

\* lines 155-161: the settings record written at first initialization
DefaultSettings ==
    [id |-> 1, monthlyBudget |-> 1000, emergencyFundGoal |-> 50000,
     emergencyFundCurrent |-> 0, userName |-> "Friend"]

\* lines 119-167: contents after the first open - the default categories
\* under the keys 1..8 and the settings singleton
InitialDb ==
    [n \in StoreNames |->
        CASE n = "categories" ->
                {[id |-> i, name |-> defaultCategories[i]]
                    : i \in 1..Len(defaultCategories)}
          [] n = "settings" -> {DefaultSettings}
          [] OTHER -> {}]

InitialKeyGen ==
    [n \in StoreNames |->
        IF n = "categories" THEN Len(defaultCategories) + 1 ELSE 1]

\* A readwrite transaction in progress: the stores and key generators as
\* its requests have left them, the key of the last add, and what went
\* wrong so far:
\*   thrown  - the code that places the requests (the Promise executor)
\*             threw: it places no further request, the requests placed
\*             so far run and the transaction commits;
\*   aborted - a request's success callback threw: the transaction aborts;
\*   orphans - requests were placed and not yet run when it aborted: each
\*             gets an error event, which bubbles to tx.onerror;
\*   err     - a request failed (ConstraintError): the error reaches
\*             tx.onerror and the transaction aborts;
\*   log     - the add requests that have run, in the order they ran.
BeginTx(d, g) ==
    [db |-> d, gen |-> g, last |-> NoId,
     thrown |-> FALSE, aborted |-> FALSE, orphans |-> FALSE, err |-> FALSE,
     log |-> << >>]

Stopped(tx) == tx.thrown \/ tx.aborted \/ tx.err

HasKey(tx, store, key) == \E r \in tx.db[store] : r.id = key

\* store.add(rec) on an autoIncrement store with keyPath "id": a record
\* without id takes the key generator's current number; a record with an
\* id keeps it, fails (ConstraintError) if the key is in use, and pushes
\* the generator past it
Add(tx, store, rec) ==
    IF Stopped(tx) THEN tx
    ELSE IF rec.id = NoId
    THEN LET key == tx.gen[store]
         IN [tx EXCEPT !.db[store] = @ \cup {[rec EXCEPT !.id = key]},
                       !.gen[store] = key + 1,
                       !.last = key,
                       !.log = Append(@, [store |-> store,
                                          rec |-> [rec EXCEPT !.id = key]])]
    ELSE IF HasKey(tx, store, rec.id)
    THEN [tx EXCEPT !.err = TRUE]
    ELSE [tx EXCEPT !.db[store] = @ \cup {rec},
                    !.gen[store] = IF rec.id >= @ THEN rec.id + 1 ELSE @,
                    !.last = rec.id,
                    !.log = Append(@, [store |-> store, rec |-> rec])]

\* store.put(rec) with an id: replaces the record under that key or
\* inserts it, and pushes the key generator past the key
Put(tx, store, rec) ==
    IF Stopped(tx) THEN tx
    ELSE [tx EXCEPT !.db[store] = {r \in @ : r.id # rec.id} \cup {rec},
                    !.gen[store] = IF store # "settings" /\ rec.id >= @
                                   THEN rec.id + 1 ELSE @,
                    !.last = rec.id]

\* store.delete(key)
Delete(tx, store, key) ==
    IF Stopped(tx) THEN tx
    ELSE [tx EXCEPT !.db[store] = {r \in @ : r.id # key}]

\* a TypeError is thrown, in a success callback (orphans: with requests
\* placed and not yet run) or in the executor
Throw(tx, inCallback, orphans) ==
    IF ~inCallback THEN [tx EXCEPT !.thrown = TRUE]
    ELSE IF tx.aborted \/ tx.err THEN tx
    ELSE [tx EXCEPT !.aborted = TRUE, !.orphans = orphans]

\* JSON values of an import file.  An array element is a record or null; an
\* array-valued property is an array, is absent, or is some other value.
JsonRec(rec) == [null |-> FALSE, val |-> rec]

JsonArray(items) == [kind |-> "array", items |-> items]

\* array.forEach(x => store.add(f(x))) over already mapped elements: a
\* null element makes the callback throw, the elements before it have been
\* requested
RECURSIVE AddFrom(_, _, _, _, _)
AddFrom(tx, store, items, i, inCallback) ==
    IF i > Len(items) \/ Stopped(tx) THEN tx
    ELSE IF items[i].null THEN Throw(tx, inCallback, i > 1)
    ELSE AddFrom(Add(tx, store, items[i].val), store, items, i + 1, inCallback)

AddEach(tx, store, items, inCallback) == AddFrom(tx, store, items, 1, inCallback)

HasNull(items) == \E i \in DOMAIN items : items[i].null

\* elements with their id removed (null elements stay null)
StripIds(items) ==
    [i \in DOMAIN items |->
        IF items[i].null THEN items[i] ELSE JsonRec(StripId(items[i].val))]

\* set of records as the array getAll returns: ascending key order
RECURSIVE SortedById(_)
SortedById(S) ==
    IF S = {} THEN << >>
    ELSE LET r == CHOOSE x \in S : \A y \in S : x.id <= y.id
         IN <<r>> \o SortedById(S \ {r})

\* lines 368-377: index.getAll(tripId)
TripExpensesOf(d, tripId) ==
    SortedById({e \in d["trip_expenses"] : e.tripId = tripId})

\* What the caller of an import sees and what the transaction leaves:
\*   committed with no failure -> tx.oncomplete resolves the promise;
\*   a request failed          -> tx.onerror rejects, the transaction aborts;
\*   a success callback threw  -> the transaction aborts; with orphaned
\*                                requests tx.onerror rejects, without them
\*                                neither oncomplete nor onerror runs: the
\*                                promise stays pending unless the executor
\*                                had thrown before (then it is rejected);
\*   only the executor threw   -> the promise is rejected and the requests
\*                                placed before the throw commit.
Finish(d, g, tx) ==
    IF tx.err THEN [db |-> d, gen |-> g, outcome |-> "rejected",
                    committed |-> FALSE, log |-> tx.log]
    ELSE IF tx.aborted
    THEN [db |-> d, gen |-> g,
          outcome |-> IF tx.thrown \/ tx.orphans THEN "rejected"
                      ELSE "pending",
          committed |-> FALSE, log |-> tx.log]
    ELSE [db |-> tx.db, gen |-> tx.gen,
          outcome |-> IF tx.thrown THEN "rejected" ELSE "resolved",
          committed |-> TRUE, log |-> tx.log]

\* mutant: the expenses keep the tripId of the file
importTripExpensesKeepTripId(items, newId) == StripIds(items)

\* lines 565-569: const { id, ...exRest } = ex; exRest.tripId = newId
importTripExpenses(items, newId) ==
    [i \in DOMAIN items |->
        IF items[i].null THEN items[i]
        ELSE JsonRec([StripId(items[i].val) EXCEPT !.tripId = newId])]

\* mutant: the expenses are added first, under the key the trip is going
\* to get
importTripChildrenFirst(d, g, data) ==
    IF data.trip.null
    THEN Finish(d, g, Throw(BeginTx(d, g), FALSE, FALSE))
    ELSE LET newId == g["trips"]
             tx1 == IF data.expenses.kind # "array"
                    THEN Throw(BeginTx(d, g), TRUE, FALSE)
                    ELSE AddEach(BeginTx(d, g), "trip_expenses",
                                 importTripExpenses(data.expenses.items, newId),
                                 TRUE)
         IN Finish(d, g, Add(tx1, "trips", StripId(data.trip.val)))

\* lines 544-572
importTrip(d, g, data) ==
    IF data.trip.null
    THEN Finish(d, g, Throw(BeginTx(d, g), FALSE, FALSE))
    ELSE LET tx1 == Add(BeginTx(d, g), "trips", StripId(data.trip.val))
             newId == tx1.last
             tx2 == IF data.expenses.kind # "array"
                    THEN Throw(tx1, TRUE, FALSE)
                    ELSE AddEach(tx1, "trip_expenses",
                                 importTripExpenses(data.expenses.items, newId),
                                 TRUE)
         IN Finish(d, g, tx2)

\* mutant: the collection is emptied before the file's records are added
importAppendReplacing(tx, store, arr) ==
    IF arr.kind = "absent" THEN tx
    ELSE IF arr.kind # "array" THEN Throw(tx, FALSE, FALSE)
    ELSE IF Stopped(tx) THEN tx
    ELSE AddEach([tx EXCEPT !.db[store] = {}], store, StripIds(arr.items), FALSE)

\* lines 447-457, 479-486, 498-504: if (data.x) data.x.forEach(add sans id)
importAppend(tx, store, arr) ==
    IF arr.kind = "absent" THEN tx
    ELSE IF arr.kind # "array" THEN Throw(tx, FALSE, FALSE)
    ELSE AddEach(tx, store, StripIds(arr.items), FALSE)

\* add to "categories", whose index on name is unique (line 62)
RECURSIVE AddCategories(_, _)
AddCategories(tx, names) ==
    IF names = << >> \/ Stopped(tx) THEN tx
    ELSE IF \E c \in tx.db["categories"] : c.name = names[1]
    THEN [tx EXCEPT !.err = TRUE]
    ELSE AddCategories(Add(tx, "categories", [id |-> NoId, name |-> names[1]]),
                       Tail(names))

\* lines 459-477: every index.get(c.name) is placed before the first add
\* runs, so each name is looked up in the categories as they were
importCategories(tx, arr) ==
    IF arr.kind = "absent" \/ Stopped(tx) THEN tx
    ELSE IF arr.kind # "array" \/ HasNull(arr.items)
    THEN Throw(tx, FALSE, FALSE)
    ELSE LET known == {c.name : c \in tx.db["categories"]}
             missing == SelectSeq(arr.items, LAMBDA c : c.val.name \notin known)
         IN AddCategories(tx, [i \in DOMAIN missing |-> missing[i].val.name])

\* { ...existing, ...incoming, id: 1 }
MergeSettings(existing, incoming) ==
    [f \in (DOMAIN existing) \cup (DOMAIN incoming) \cup {"id"} |->
        IF f = "id" THEN 1
        ELSE IF f \in DOMAIN incoming THEN incoming[f] ELSE existing[f]]

\* lines 488-496
importSettings(tx, settings) ==
    IF ~settings.present \/ Stopped(tx) THEN tx
    ELSE LET found == {r \in tx.db["settings"] : r.id = 1}
             existing == IF found = {} THEN [id |-> 1]
                         ELSE CHOOSE r \in found : TRUE
         IN Put(tx, "settings", MergeSettings(existing, settings.val))

\* lines 519-525: the file's expenses of trip oldId, re-pointed to newId
importDataTripExpenses(items, oldId, newId) ==
    importTripExpenses(SelectSeq(items, LAMBDA ex : ex.val.tripId = oldId), newId)

\* mutant: the trip is added with the id it has in the file
RECURSIVE importTripsKeepId(_, _, _)
importTripsKeepId(tx, trips, expenseData) ==
    IF trips = << >> \/ tx.thrown \/ tx.err THEN tx
    ELSE IF trips[1].null THEN Throw(tx, FALSE, FALSE)
    ELSE LET oldId == trips[1].val.id
             tx1 == Add(tx, "trips", trips[1].val)
             newId == tx1.last
             tx2 == IF expenseData.kind = "absent" \/ oldId = NoId THEN tx1
                    ELSE IF expenseData.kind # "array" \/ HasNull(expenseData.items)
                    THEN Throw(tx1, TRUE,
                               Len(trips) > 1 /\ ~trips[2].null)
                    ELSE AddEach(tx1, "trip_expenses",
                                 importDataTripExpenses(expenseData.items, oldId, newId),
                                 TRUE)
         IN importTripsKeepId(tx2, Tail(trips), expenseData)

\* lines 512-515: tripData.forEach, in the Promise executor - every trip
\* of the file is added without its id; a null element throws and ends
\* the loop.  placed: the trips added so far, each with the id it had in
\* the file and the key its add returned.
RECURSIVE placeTrips(_, _, _)
placeTrips(tx, trips, placed) ==
    IF trips = << >> \/ tx.thrown \/ tx.err
    THEN [tx |-> tx, placed |-> placed]
    ELSE IF trips[1].null
    THEN [tx |-> Throw(tx, FALSE, FALSE), placed |-> placed]
    ELSE LET tx1 == Add(tx, "trips", StripId(trips[1].val))
         IN placeTrips(tx1, Tail(trips),
                       Append(placed, [oldId |-> trips[1].val.id,
                                       newId |-> tx1.last]))

\* lines 516-527: addReq.onsuccess of the added trips, in the order of
\* their adds and after all of them: the file's expenses of the trip are
\* added under newId.  A callback that throws aborts the transaction; the
\* adds of the trips behind it are then still waiting for their callbacks.
RECURSIVE tripCallbacks(_, _, _)
tripCallbacks(tx, placed, expenseData) ==
    IF placed = << >> \/ Stopped(tx) THEN tx
    ELSE LET oldId == placed[1].oldId
             newId == placed[1].newId
             tx1 == IF expenseData.kind = "absent" \/ oldId = NoId THEN tx
                    ELSE IF expenseData.kind # "array" \/ HasNull(expenseData.items)
                    THEN Throw(tx, TRUE, Len(placed) > 1)
                    ELSE AddEach(tx, "trip_expenses",
                                 importDataTripExpenses(expenseData.items, oldId, newId),
                                 TRUE)
         IN tripCallbacks(tx1, Tail(placed), expenseData)

\* lines 512-528: the callbacks run whether or not the executor has thrown
\* in the meantime
importTrips(tx, trips, expenseData) ==
    IF tx.thrown \/ tx.err THEN tx
    ELSE LET run == placeTrips(tx, trips, << >>)
             done == tripCallbacks([run.tx EXCEPT !.thrown = FALSE],
                                   run.placed, expenseData)
         IN [done EXCEPT !.thrown = run.tx.thrown]

\* lines 506-529
importTripsSection(tx, data) ==
    IF data.trips.kind = "absent" \/ tx.thrown \/ tx.err THEN tx
    ELSE IF data.trips.kind # "array" THEN Throw(tx, FALSE, FALSE)
    ELSE importTrips(tx, data.trips.items, data.trip_expenses)

\* lines 420-531
importData(d, g, data) ==
    LET tx1 == importAppend(BeginTx(d, g), "expenses", data.expenses)
        tx2 == importCategories(tx1, data.categories)
        tx3 == importAppend(tx2, "reminders", data.reminders)
        tx4 == importSettings(tx3, data.settings)
        tx5 == importAppend(tx4, "savings_transactions", data.savingsTransactions)
        tx6 == importTripsSection(tx5, data)
    IN Finish(d, g, tx6)

\* ------------------------------------------------------------------------
\* State
\* ------------------------------------------------------------------------
VARIABLES
    members,      \* trip.members handed to calculateSettlements
    expenses,     \* the trip's expense list handed to calculateSettlements
    settlements,  \* the result of calculateSettlements(members, expenses)
    db,           \* object store name -> set of records
    keyGen,       \* object store name -> current number of its key generator
    pageTrip,     \* TripDetailPage's trip state (NoTrip: no trip shown)
    exportRun,    \* exportTrip between getTrip and getTripExpenses
    file,         \* the trip export file last downloaded, if any
    importOutcome,\* the promise of the last importTrip / importData /
                  \* deleteCategory call
    merge,        \* the "Merge Expenses Here" handler's run
    dbPromise,    \* the module's dbPromise: 0 (null) or the number of the
                  \* connection it is the promise of
    conn,         \* the connections indexedDB.open was called for in this
                  \* page session, each "opening" or "open"
    awaits,       \* per caller: the connection getDB promised it (0: none)
    pendingUpdates,\* updateSettings calls between their getSettings and put
    clearRun,     \* clearAllData between its clear and its repopulation
    now,          \* the clock read by new Date(), in instants
    opRun,        \* performDBOperation's transaction from the placing of its
                  \* request to its completion or abort
    opPromise,    \* the promise of the last performDBOperation write
    dataChanged   \* dataChanged events dispatched by the last step

settleVars == <<members, expenses, settlements>>

maintVars == <<now, opRun, opPromise>>

sessionVars == <<dbPromise, conn, awaits, pendingUpdates, clearRun, maintVars>>

storeVars == <<db, keyGen, pageTrip, exportRun, file, importOutcome, merge,
               dbPromise, conn, awaits, pendingUpdates, clearRun,
               now, opRun, opPromise, dataChanged>>

vars == <<members, expenses, settlements,
          db, keyGen, pageTrip, exportRun, file, importOutcome, merge,
          dbPromise, conn, awaits, pendingUpdates, clearRun,
          now, opRun, opPromise, dataChanged>>

\* ------------------------------------------------------------------------
\* Records and files of the store specification
\* ------------------------------------------------------------------------
TripNames == {"t1"}

\* createdAt is carried like name and is left out
NoTrip == [id |-> NoId, name |-> "", members |-> << >>, status |-> ""]

NoTripExpense ==
    [id |-> NoId, tripId |-> NoId, payerName |-> "", amount |-> 0,
     description |-> "", date |-> ""]

JsonNullTrip == [null |-> TRUE, val |-> NoTrip]

JsonNullTripExpense == [null |-> TRUE, val |-> NoTripExpense]

AbsentArray == [kind |-> "absent", items |-> << >>]

\* a truthy value that is no array
OtherValue == [kind |-> "other", items |-> << >>]

ForeignTrip == [id |-> 1, name |-> "t2", members |-> <<"b", "c">>,
                status |-> "completed"]

ForeignTripExpense(id, tripId, payer) ==
    [id |-> id, tripId |-> tripId, payerName |-> payer, amount |-> 2,
     description |-> "hotel", date |-> "d1"]

\* trip export files of another installation, well formed and not
ForeignTripFiles ==
    {[trip |-> JsonRec(ForeignTrip),
      expenses |-> JsonArray(<<JsonRec(ForeignTripExpense(1, 1, "b")),
                               JsonRec(ForeignTripExpense(2, 1, "c"))>>)],
     [trip |-> JsonRec(ForeignTrip),
      expenses |-> JsonArray(<<JsonRec(ForeignTripExpense(1, 1, "b")),
                               JsonNullTripExpense>>)],
     [trip |-> JsonRec(ForeignTrip), expenses |-> AbsentArray],
     [trip |-> JsonRec(ForeignTrip), expenses |-> OtherValue],
     [trip |-> JsonNullTrip,
      expenses |-> JsonArray(<<JsonRec(ForeignTripExpense(1, 1, "b"))>>)]}

NoData ==
    [expenses |-> AbsentArray, categories |-> AbsentArray,
     reminders |-> AbsentArray,
     settings |-> [present |-> FALSE, val |-> [id |-> 1]],
     savingsTransactions |-> AbsentArray,
     trips |-> AbsentArray, trip_expenses |-> AbsentArray]

ForeignExpense == [id |-> 1, title |-> "rent", amount |-> 7]

ForeignReminder ==
    [id |-> 1, title |-> "bill", date |-> "d1", isRecurring |-> FALSE,
     repeatInterval |-> 0]

ForeignSavings == [id |-> 1, amount |-> 5, type |-> "deposit"]

ForeignSettings ==
    [id |-> 1, monthlyBudget |-> 2000, emergencyFundGoal |-> 50000,
     emergencyFundCurrent |-> 10, userName |-> "Ann"]

ForeignTrips ==
    JsonArray(<<JsonRec(ForeignTrip),
                JsonRec([ForeignTrip EXCEPT !.id = 2, !.name = "t1"])>>)

ForeignTripExpenses ==
    JsonArray(<<JsonRec(ForeignTripExpense(1, 2, "b")),
                JsonRec(ForeignTripExpense(2, 1, "c"))>>)

\* whole-database files of another installation, well formed and not
DataFiles ==
    {\* a full export
     [NoData EXCEPT !.expenses = JsonArray(<<JsonRec(ForeignExpense)>>),
                    !.categories = JsonArray(<<JsonRec([id |-> 1, name |-> "Food"]),
                                               JsonRec([id |-> 9, name |-> "Pets"])>>),
                    !.reminders = JsonArray(<<JsonRec(ForeignReminder)>>),
                    !.settings = [present |-> TRUE, val |-> ForeignSettings],
                    !.savingsTransactions = JsonArray(<<JsonRec(ForeignSavings)>>),
                    !.trips = ForeignTrips,
                    !.trip_expenses = ForeignTripExpenses],
     \* trips only
     [NoData EXCEPT !.trips = ForeignTrips,
                    !.trip_expenses = ForeignTripExpenses],
     \* a null among the reminders, behind well-formed expenses
     [NoData EXCEPT !.expenses = JsonArray(<<JsonRec(ForeignExpense)>>),
                    !.reminders = JsonArray(<<[null |-> TRUE, val |-> ForeignReminder]>>)],
     \* a null among the trips, behind a well-formed trip
     [NoData EXCEPT !.trips = JsonArray(<<JsonRec(ForeignTrip), JsonNullTrip>>),
                    !.trip_expenses = ForeignTripExpenses],
     \* a null among the trip expenses
     [NoData EXCEPT !.savingsTransactions = JsonArray(<<JsonRec(ForeignSavings)>>),
                    !.trips = ForeignTrips,
                    !.trip_expenses = JsonArray(<<JsonRec(ForeignTripExpense(1, 1, "b")),
                                                  JsonNullTripExpense>>)],
     \* a category name twice
     [NoData EXCEPT !.expenses = JsonArray(<<JsonRec(ForeignExpense)>>),
                    !.categories = JsonArray(<<JsonRec([id |-> 9, name |-> "Pets"]),
                                               JsonRec([id |-> 10, name |-> "Pets"])>>)]}

\* operations that call getDB before the first open has completed
MaxCallers == 2

Callers == 1..MaxCallers

\* no performDBOperation transaction is open
NoOp ==
    [active |-> FALSE, succeeded |-> FALSE,
     tx |-> BeginTx(InitialDb, InitialKeyGen)]

NoMerge ==
    [tripId |-> NoId, queue |-> << >>, inserted |-> 0, outcome |-> "none"]

\* the key generators stay within the model's bounds
WithinBounds(g) ==
    /\ g["trips"] <= MaxTripKey + 1
    /\ g["trip_expenses"] <= MaxTripExpenseKey + 1
    /\ \A n \in {"expenses", "reminders", "savings_transactions"} :
          g[n] <= MaxOtherKey + 1
    /\ g["categories"] <= MaxCategoryKey + 1

\* ------------------------------------------------------------------------
\* Specification of the store: trips, trip expenses, export, import, merge
\* ------------------------------------------------------------------------
StoreInit ==
    /\ db = InitialDb
    /\ keyGen = InitialKeyGen
    /\ pageTrip = NoTrip
    /\ exportRun = {}
    /\ file = {}
    /\ importOutcome = "none"
    /\ merge = NoMerge
    /\ dbPromise = 1
    /\ conn = <<"open">>
    /\ awaits = [c \in Callers |-> 0]
    /\ pendingUpdates = {}
    /\ clearRun = FALSE
    /\ now = 0
    /\ opRun = NoOp
    /\ opPromise = "none"
    /\ dataChanged = 0

Init ==
    /\ members = << >>
    /\ expenses = << >>
    /\ settlements = << >>
    /\ StoreInit

\* mutant: the event is dispatched whatever the transaction's mode
dispatchedAlways(mode, committed) == IF committed THEN 1 ELSE 0

\* lines 188-192: transaction.oncomplete dispatches dataChanged if the
\* mode is "readwrite"
dispatched(mode, committed) ==
    IF committed /\ mode = "readwrite" THEN 1 ELSE 0

\* performDBOperation (lines 170-198) with one request on one store
Commit(tx) ==
    /\ db' = IF Stopped(tx) THEN db ELSE tx.db
    /\ keyGen' = IF Stopped(tx) THEN keyGen ELSE tx.gen
    /\ dataChanged' = dispatched("readwrite", ~Stopped(tx))

\* useTrips.createTrip -> addTrip (lines 358-359)
addTrip(name, roster) ==
    /\ keyGen["trips"] <= MaxTripKey
    /\ Commit(Add(BeginTx(db, keyGen), "trips",
                  [id |-> NoId, name |-> name, members |-> roster,
                   status |-> "active"]))
    /\ UNCHANGED <<settleVars, sessionVars, pageTrip, exportRun, file, importOutcome, merge>>

\* page.tsx loadData (lines 103-132): getTrip(tripId) into the page state;
\* an absent trip sends the user back to the list
loadData(tripId) ==
    /\ merge.outcome # "running"
    /\ exportRun = {}
    /\ LET found == {t \in db["trips"] : t.id = tripId}
       IN pageTrip' = IF found = {} THEN NoTrip ELSE CHOOSE t \in found : TRUE
    /\ pageTrip' # pageTrip
    /\ dataChanged' = dispatched("readonly", TRUE)
    /\ UNCHANGED <<settleVars, sessionVars, db, keyGen, exportRun, file, importOutcome, merge>>

\* page.tsx handleToggleStatus (lines 193-203) -> updateTrip (lines 361-362)
handleToggleStatus ==
    /\ pageTrip # NoTrip
    /\ LET updatedTrip ==
              [pageTrip EXCEPT !.status = IF @ = "active" THEN "completed"
                                          ELSE "active"]
       IN /\ Commit(Put(BeginTx(db, keyGen), "trips", updatedTrip))
          /\ pageTrip' = updatedTrip
    /\ UNCHANGED <<settleVars, sessionVars, exportRun, file, importOutcome, merge>>

\* mutant: the trip's expenses are deleted with it
deleteTripCascade(id) ==
    /\ \E t \in db["trips"] : t.id = id
    /\ db' = [db EXCEPT !["trips"] = {t \in @ : t.id # id},
                        !["trip_expenses"] = {e \in @ : e.tripId # id}]
    /\ dataChanged' = 1
    /\ UNCHANGED <<settleVars, sessionVars, keyGen, pageTrip, exportRun, file,
                   importOutcome, merge>>

\* useTrips.removeTrip -> deleteTrip (lines 364-365)
deleteTrip(id) ==
    /\ \E t \in db["trips"] : t.id = id
    /\ Commit(Delete(BeginTx(db, keyGen), "trips", id))
    /\ UNCHANGED <<settleVars, sessionVars, pageTrip, exportRun, file, importOutcome, merge>>

\* page.tsx handleAddExpense (lines 156-183) -> addTripExpense (379-384)
addTripExpense(payer) ==
    /\ pageTrip # NoTrip
    /\ keyGen["trip_expenses"] <= MaxTripExpenseKey
    /\ Commit(Add(BeginTx(db, keyGen), "trip_expenses",
                  [id |-> NoId, tripId |-> pageTrip.id, payerName |-> payer,
                   amount |-> 1, description |-> "taxi", date |-> "d0"]))
    /\ UNCHANGED <<settleVars, sessionVars, pageTrip, exportRun, file, importOutcome, merge>>

\* page.tsx handleDeleteExpense (185-191) -> deleteTripExpense (391-392)
deleteTripExpense(id) ==
    /\ pageTrip # NoTrip
    /\ \E e \in db["trip_expenses"] : e.id = id /\ e.tripId = pageTrip.id
    /\ Commit(Delete(BeginTx(db, keyGen), "trip_expenses", id))
    /\ UNCHANGED <<settleVars, sessionVars, pageTrip, exportRun, file, importOutcome, merge>>

\* exportTrip line 534: const trip = await getTrip(tripId)
exportGetTrip ==
    /\ pageTrip # NoTrip
    /\ exportRun = {}
    /\ LET found == {t \in db["trips"] : t.id = pageTrip.id}
       IN exportRun' = {[tripId |-> pageTrip.id,
                         trip |-> IF found = {} THEN JsonNullTrip
                                  ELSE JsonRec(CHOOSE t \in found : TRUE)]}
    /\ dataChanged' = dispatched("readonly", TRUE)
    /\ UNCHANGED <<settleVars, sessionVars, db, keyGen, pageTrip, file, importOutcome, merge>>

\* exportTrip lines 535-541, then useTrips.downloadTrip: the file is
\* written unless data.trip is undefined (data.trip.name throws)
exportGetTripExpenses ==
    /\ \E run \in exportRun :
          file' = IF run.trip.null THEN file
                  ELSE {[trip |-> run.trip,
                         expenses |->
                            JsonArray([i \in DOMAIN TripExpensesOf(db, run.tripId)
                                          |-> JsonRec(TripExpensesOf(db, run.tripId)[i])])]}
    /\ exportRun' = {}
    /\ dataChanged' = dispatched("readonly", TRUE)
    /\ UNCHANGED <<settleVars, sessionVars, db, keyGen, pageTrip, importOutcome, merge>>

\* page.tsx "Import as New Trip" (lines 338-372) -> importTrip
uploadTrip(data) ==
    /\ pageTrip # NoTrip
    /\ LET r == importTrip(db, keyGen, data)
       IN /\ WithinBounds(r.gen)
          /\ db' = r.db
          /\ keyGen' = r.gen
          /\ importOutcome' = r.outcome
          /\ dataChanged' = IF r.committed THEN 1 ELSE 0
    /\ UNCHANGED <<settleVars, sessionVars, pageTrip, exportRun, file, merge>>

\* the trips list page's import (whole database) -> importData
uploadData(data) ==
    /\ LET r == importData(db, keyGen, data)
       IN /\ WithinBounds(r.gen)
          /\ db' = r.db
          /\ keyGen' = r.gen
          /\ importOutcome' = r.outcome
          /\ dataChanged' = IF r.committed THEN 1 ELSE 0
    /\ UNCHANGED <<settleVars, sessionVars, pageTrip, exportRun, file, merge>>

\* page.tsx "Merge Expenses Here" (lines 304-314): the file is parsed and
\* the loop over data.expenses || [] begins
mergeStart(data) ==
    /\ pageTrip # NoTrip
    /\ merge.outcome # "running"
    /\ merge' =
          IF data.expenses.kind = "other"
          THEN [NoMerge EXCEPT !.tripId = pageTrip.id, !.outcome = "failed"]
          ELSE IF data.expenses.items = << >>
          THEN [NoMerge EXCEPT !.tripId = pageTrip.id, !.outcome = "done"]
          ELSE [NoMerge EXCEPT !.tripId = pageTrip.id,
                               !.queue = data.expenses.items,
                               !.outcome = "running"]
    /\ merge' # merge
    /\ dataChanged' = 0
    /\ UNCHANGED <<settleVars, sessionVars, db, keyGen, pageTrip, exportRun, file, importOutcome>>

\* mutant: the expense keeps the id it has in the file
mergeExpenseKeepId(ex, tripId) == [ex EXCEPT !.tripId = tripId]

\* page.tsx lines 315-319: const { id: _, ...rest } = ex;
\* { ...rest, tripId: tripId }
mergeExpense(ex, tripId) == [StripId(ex) EXCEPT !.tripId = tripId]

\* page.tsx lines 314-329: one turn of the loop - const { id: _, ...rest }
\* = ex; await createTripExpense({ ...rest, tripId }) in a transaction of
\* its own; a TypeError ends the loop in the catch block
mergeStep ==
    /\ merge.outcome = "running"
    /\ LET ex == Head(merge.queue)
           rest == Tail(merge.queue)
       IN IF ex.null
          THEN /\ merge' = [merge EXCEPT !.queue = << >>, !.outcome = "failed"]
               /\ UNCHANGED <<db, keyGen>>
               /\ dataChanged' = 0
          ELSE /\ keyGen["trip_expenses"] <= MaxTripExpenseKey
               /\ Commit(Add(BeginTx(db, keyGen), "trip_expenses",
                             mergeExpense(ex.val, merge.tripId)))
               /\ merge' = [merge EXCEPT !.queue = rest,
                                         !.inserted = @ + 1,
                                         !.outcome = IF rest = << >> THEN "done"
                                                     ELSE "running"]
    /\ UNCHANGED <<settleVars, sessionVars, pageTrip, exportRun, file, importOutcome>>

\* Trips and their expenses on the trip pages, export and re-import
Next ==
    \/ \E name \in TripNames : addTrip(name, <<"a", "b">>)
    \/ \E id \in 1..MaxTripKey : loadData(id)
    \/ handleToggleStatus
    \/ \E id \in 1..MaxTripKey : deleteTrip(id)
    \/ \E payer \in {"a", "b"} : addTripExpense(payer)
    \/ \E id \in 1..MaxTripExpenseKey : deleteTripExpense(id)
    \/ exportGetTrip
    \/ exportGetTripExpenses
    \/ \E data \in file : uploadTrip(data)

Spec == Init /\ [][Next]_vars

\* Imports of files of another installation into a store with trips
ImportNext ==
    \/ \E name \in TripNames : addTrip(name, <<"a", "b">>)
    \/ \E id \in 1..MaxTripKey : loadData(id)
    \/ \E payer \in {"a"} : addTripExpense(payer)
    \/ \E data \in ForeignTripFiles : uploadTrip(data)
    \/ \E data \in DataFiles : uploadData(data)
    \/ \E data \in ForeignTripFiles : mergeStart(data)
    \/ mergeStep

ImportSpec == Init /\ [][ImportNext]_vars

\* ------------------------------------------------------------------------
\* Specification of the store's life: open, defaults, categories, settings,
\* clearAllData, page reloads
\* ------------------------------------------------------------------------

\* mutant: every call opens the database again
getDBNoMemo(promise, connections) ==
    [dbPromise |-> Len(connections) + 1,
     conn |-> Append(connections, "opening")]

\* lines 33-117: if (!dbPromise) dbPromise = new Promise(... indexedDB.open
\* ...); return dbPromise
getDB(promise, connections) ==
    IF promise = 0
    THEN [dbPromise |-> Len(connections) + 1,
          conn |-> Append(connections, "opening")]
    ELSE [dbPromise |-> promise, conn |-> connections]

\* the promise getDB hands out has resolved
Opened == dbPromise # 0 /\ conn[dbPromise] = "open"

\* mutant: the default settings are written at every run
populateInitialDataResetting(d, g) ==
    LET known == {c.name : c \in d["categories"]}
        missing == SelectSeq(defaultCategories, LAMBDA name : name \notin known)
        tx1 == AddCategories(BeginTx(d, g), missing)
    IN Finish(d, g, [tx1 EXCEPT !.db["settings"] = {DefaultSettings}])

\* lines 119-167: in one transaction on categories and settings, add the
\* default categories whose name is not stored and, if the settings store
\* is empty, the default settings record
populateInitialData(d, g) ==
    LET known == {c.name : c \in d["categories"]}
        missing == SelectSeq(defaultCategories, LAMBDA name : name \notin known)
        tx1 == AddCategories(BeginTx(d, g), missing)
        tx2 == IF tx1.db["settings"] = {}
               THEN [tx1 EXCEPT !.db["settings"] = {DefaultSettings}]
               ELSE tx1
    IN Finish(d, g, tx2)

\* default category names that are not stored
MissingDefaults(d) ==
    {i \in DOMAIN defaultCategories :
        \A c \in d["categories"] : c.name # defaultCategories[i]}

\* the categories key generator leaves room for the missing defaults
RoomForDefaults(d, g) ==
    g["categories"] + Cardinality(MissingDefaults(d)) <= MaxCategoryKey + 1

\* a fresh installation: no object store holds a record
EmptyDb == [n \in StoreNames |-> {}]

FreshKeyGen == [n \in StoreNames |-> 1]

OpenInit ==
    /\ members = << >>
    /\ expenses = << >>
    /\ settlements = << >>
    /\ db = EmptyDb
    /\ keyGen = FreshKeyGen
    /\ pageTrip = NoTrip
    /\ exportRun = {}
    /\ file = {}
    /\ importOutcome = "none"
    /\ merge = NoMerge
    /\ dbPromise = 0
    /\ conn = << >>
    /\ awaits = [c \in Callers |-> 0]
    /\ pendingUpdates = {}
    /\ clearRun = FALSE
    /\ now = 0
    /\ opRun = NoOp
    /\ opPromise = "none"
    /\ dataChanged = 0

\* an operation of caller c calls getDB (e.g. line 175) before the open
\* has completed
startOperation(c) ==
    /\ awaits[c] = 0
    /\ ~Opened
    /\ LET r == getDB(dbPromise, conn)
       IN /\ dbPromise' = r.dbPromise
          /\ conn' = r.conn
          /\ awaits' = [awaits EXCEPT ![c] = r.dbPromise]
    /\ dataChanged' = 0
    /\ UNCHANGED <<settleVars, maintVars, db, keyGen, pageTrip, exportRun, file,
                   importOutcome, merge, pendingUpdates, clearRun>>

\* lines 106-113: request.onsuccess of open number k -
\* populateInitialData(db).then(() => resolve(db))
openSuccess(k) ==
    /\ k \in DOMAIN conn
    /\ conn[k] = "opening"
    /\ LET r == populateInitialData(db, keyGen)
       IN /\ db' = r.db
          /\ keyGen' = r.gen
    /\ conn' = [conn EXCEPT ![k] = "open"]
    /\ dataChanged' = 0
    /\ UNCHANGED <<settleVars, maintVars, pageTrip, exportRun, file, importOutcome,
                   merge, dbPromise, awaits, pendingUpdates, clearRun>>

\* the page is loaded anew: the module state is gone, the database stays
reload ==
    /\ dbPromise # 0
    /\ dbPromise' = 0
    /\ conn' = << >>
    /\ awaits' = [c \in Callers |-> 0]
    /\ pendingUpdates' = {}
    /\ clearRun' = FALSE
    /\ importOutcome' = "none"
    /\ dataChanged' = 0
    /\ UNCHANGED <<settleVars, maintVars, db, keyGen, pageTrip, exportRun, file, merge>>

CategoryNames == {"Pets", "Food"}

\* lines 215-218: performDBOperation("categories", "readwrite", add); the
\* unique index on name fails the add of a stored name
addCategory(name) ==
    /\ Opened
    /\ LET tx == AddCategories(BeginTx(db, keyGen), <<name>>)
       IN /\ RoomForDefaults(tx.db, tx.gen)
          /\ Commit(tx)
    /\ UNCHANGED <<settleVars, sessionVars, pageTrip, exportRun, file,
                   importOutcome, merge>>

\* mutant: the category is deleted whatever its name
deleteCategoryUnguarded(tx, id) ==
    [tx |-> Delete(tx, "categories", id), outcome |-> "resolved"]

\* lines 227-241: get the category; reject if its name is a default
\* category's, delete it otherwise
deleteCategoryRequest(tx, id) ==
    LET found == {c \in tx.db["categories"] : c.id = id}
    IN IF \E c \in found : c.name \in Range(defaultCategories)
       THEN [tx |-> tx, outcome |-> "rejected"]
       ELSE [tx |-> Delete(tx, "categories", id), outcome |-> "resolved"]

\* lines 219-244: the transaction completes in either case, and
\* tx.oncomplete dispatches dataChanged
deleteCategory(id) ==
    /\ Opened
    /\ LET r == deleteCategoryRequest(BeginTx(db, keyGen), id)
       IN /\ Commit(r.tx)
          /\ importOutcome' = r.outcome
    /\ UNCHANGED <<settleVars, sessionVars, pageTrip, exportRun, file, merge>>

SettingsPatches == {[userName |-> "Bo"], [monthlyBudget |-> 500]}

\* line 320: const existingSettings = await getSettings()
updateSettingsGet(patch) ==
    /\ Opened
    /\ Cardinality(pendingUpdates) < MaxUpdates
    /\ pendingUpdates' = pendingUpdates \cup
          {[patch |-> patch, found |-> {r \in db["settings"] : r.id = 1}]}
    /\ pendingUpdates' # pendingUpdates
    /\ dataChanged' = dispatched("readonly", TRUE)
    /\ UNCHANGED <<settleVars, maintVars, db, keyGen, pageTrip, exportRun, file,
                   importOutcome, merge, dbPromise, conn, awaits, clearRun>>

\* lines 321-323: store.put({ ...existingSettings, ...settings, id: 1 })
updateSettingsPut(u) ==
    /\ u \in pendingUpdates
    /\ LET existingSettings == IF u.found = {} THEN [id |-> 1]
                               ELSE CHOOSE r \in u.found : TRUE
       IN Commit(Put(BeginTx(db, keyGen), "settings",
                     MergeSettings(existingSettings, u.patch)))
    /\ pendingUpdates' = pendingUpdates \ {u}
    /\ UNCHANGED <<settleVars, maintVars, pageTrip, exportRun, file, importOutcome,
                   merge, dbPromise, conn, awaits, clearRun>>

\* mutant: the trips and their expenses are cleared as well
clearedStoreNamesAll == StoreNames

\* lines 576-582
clearedStoreNames ==
    {"expenses", "categories", "reminders", "settings", "savings_transactions"}

\* lines 583-602: the transaction that clears the stores commits;
\* tx.oncomplete starts the repopulation
clearAllData ==
    /\ Opened
    /\ ~clearRun
    /\ keyGen["categories"] + Len(defaultCategories) <= MaxCategoryKey + 1
    /\ db' = [n \in StoreNames |->
                 IF n \in clearedStoreNames THEN {} ELSE db[n]]
    /\ clearRun' = TRUE
    /\ dataChanged' = 0
    /\ UNCHANGED <<settleVars, maintVars, keyGen, pageTrip, exportRun, file,
                   importOutcome, merge, dbPromise, conn, awaits,
                   pendingUpdates>>

\* lines 586-592: await populateInitialData(db); dispatch dataChanged;
\* resolve()
clearAllDataRepopulate ==
    /\ clearRun
    /\ LET r == populateInitialData(db, keyGen)
       IN /\ db' = r.db
          /\ keyGen' = r.gen
    /\ clearRun' = FALSE
    /\ dataChanged' = 1
    /\ UNCHANGED <<settleVars, maintVars, pageTrip, exportRun, file, importOutcome,
                   merge, dbPromise, conn, awaits, pendingUpdates>>

\* the whole-database export of another installation
ForeignData == CHOOSE d \in DataFiles : d.settings.present

\* Categories, trips, imports and clearAllData on an open database
OpsNext ==
    \/ \E name \in CategoryNames : addCategory(name)
    \/ \E id \in 1..MaxCategoryKey : deleteCategory(id)
    \/ clearAllData
    \/ clearAllDataRepopulate
    \/ /\ uploadData(ForeignData)
       /\ RoomForDefaults(db', keyGen')
    \/ \E name \in TripNames : addTrip(name, <<"a", "b">>)
    \/ \E id \in 1..MaxTripKey : loadData(id)
    \/ handleToggleStatus
    \/ \E id \in 1..MaxTripKey : deleteTrip(id)
    \/ \E data \in ForeignTripFiles : uploadTrip(data)

OpsSpec == Init /\ [][OpsNext]_vars

\* The settings singleton on an open database: concurrent updateSettings
\* calls, whole-database import and clearAllData
SettingsNext ==
    \/ \E patch \in SettingsPatches : updateSettingsGet(patch)
    \/ \E u \in pendingUpdates : updateSettingsPut(u)
    \/ clearAllData
    \/ clearAllDataRepopulate
    \/ uploadData(ForeignData)

SettingsSpec == Init /\ [][SettingsNext]_vars

\* Page sessions from a fresh installation on: opens, reloads, and what
\* changes the categories and the settings in between
OpenNext ==
    \/ \E c \in Callers : startOperation(c)
    \/ \E k \in Callers : openSuccess(k)
    \/ reload
    \/ \E name \in CategoryNames : addCategory(name)
    \/ \E id \in 1..MaxCategoryKey : deleteCategory(id)
    \/ clearAllData
    \/ clearAllDataRepopulate
    \/ /\ Opened
       /\ uploadData(ForeignData)
       /\ RoomForDefaults(db', keyGen')

OpenSpec == OpenInit /\ [][OpenNext]_vars

\* ------------------------------------------------------------------------
\* Reminders: addReminder, deleteReminder and the sweep clearOldReminders
\* ------------------------------------------------------------------------
MaxReminderKey == 2

\* the last instant the clock reaches
MaxTime == 7

\* instants per day: 00:00 and 12:00
DayLen == 2

\* Date.prototype.toISOString: the date, then the time of day; IndexedDB
\* orders these strings character by character
toISOString(t) == <<t \div DayLen, t % DayLen>>

\* new Date(isoString)
parseDate(s) == s[1] * DayLen + s[2]

\* the key order of two ISO strings
StringLess(a, b) == a[1] < b[1] \/ (a[1] = b[1] /\ a[2] < b[2])

\* line 263: startOfDay(new Date())
startOfDay(t) == t - (t % DayLen)

\* line 279: date.setDate(date.getDate() + n)
setDate(t, n) == t + n * DayLen

\* no lastTriggered property
NoDate == << >>

\* due dates and intervals of the reminders a user enters; repeatInterval 0
\* stands for a repeatInterval that is 0 or missing
ReminderDates == 0..3

RepeatIntervals == {0, 1, 2}

ReminderInputs ==
    {[id |-> NoId, title |-> "bill", date |-> toISOString(t),
      isRecurring |-> b, repeatInterval |-> n, lastTriggered |-> NoDate]
        : t \in ReminderDates, b \in BOOLEAN, n \in RepeatIntervals}

\* mutant: the range includes its upper bound
inRangeClosed(date, upper) == ~StringLess(upper, date)

\* line 264: IDBKeyRange.upperBound(yesterday.toISOString(), true)
inRange(date, upper) == StringLess(date, upper)

\* mutant: the next date is one day late
nextDateLate(reminder) ==
    setDate(parseDate(reminder.date), reminder.repeatInterval + 1)

\* lines 277-279
nextDate(reminder) ==
    setDate(parseDate(reminder.date), reminder.repeatInterval)

\* lines 272-295: the success callback for one record under the cursor
onCursor(run, reminder) ==
    IF reminder.isRecurring /\ reminder.repeatInterval # 0
    THEN [run EXCEPT
            !.tx = Put(@, "reminders",
                       [reminder EXCEPT !.date = toISOString(nextDate(reminder)),
                                        !.lastTriggered = reminder.date]),
            !.updatedCount = @ + 1]
    ELSE [run EXCEPT !.tx = Delete(@, "reminders", reminder.id),
                     !.deletedCount = @ + 1]

\* the index "date" holds the records in the order of (date, key)
IndexLess(a, b) ==
    StringLess(a.date, b.date) \/ (a.date = b.date /\ a.id < b.id)

\* the cursor's position before the first record
BeforeAll == [date |-> <<-1, 0>>, id |-> NoId]

\* lines 266-296: index.openCursor(range) and cursor.continue(): the cursor
\* moves to the first record of the index, as it is then, that lies behind
\* its position and in the range
RECURSIVE cursorFrom(_, _, _)
cursorFrom(run, pos, upper) ==
    LET ahead == {r \in run.tx.db["reminders"] :
                     inRange(r.date, upper) /\ IndexLess(pos, r)}
    IN IF ahead = {} THEN run
       ELSE LET reminder == CHOOSE r \in ahead :
                               \A q \in ahead : q = r \/ IndexLess(r, q)
            IN cursorFrom(onCursor(run, reminder),
                          [date |-> reminder.date, id |-> reminder.id],
                          upper)

\* mutant: the event is dispatched after every sweep
sweepDispatchedAlways(deletedCount, updatedCount) == 1

\* lines 298-304
sweepDispatched(deletedCount, updatedCount) ==
    IF deletedCount > 0 \/ updatedCount > 0 THEN 1 ELSE 0

\* lines 256-312, at the clock time t
sweep(d, g, t) ==
    cursorFrom([tx |-> BeginTx(d, g), deletedCount |-> 0, updatedCount |-> 0],
               BeforeAll, toISOString(startOfDay(t)))

clearOldReminders ==
    LET run == sweep(db, keyGen, now)
    IN /\ db' = run.tx.db
       /\ keyGen' = run.tx.gen
       /\ dataChanged' = sweepDispatched(run.deletedCount, run.updatedCount)
       /\ UNCHANGED <<settleVars, sessionVars, pageTrip, exportRun, file,
                      importOutcome, merge>>

\* lines 249-252
addReminder(reminder) ==
    /\ keyGen["reminders"] <= MaxReminderKey
    /\ Commit(Add(BeginTx(db, keyGen), "reminders", reminder))
    /\ UNCHANGED <<settleVars, sessionVars, pageTrip, exportRun, file,
                   importOutcome, merge>>

\* time passes
tick ==
    /\ now < MaxTime
    /\ now' = now + 1
    /\ UNCHANGED <<settleVars, db, keyGen, pageTrip, exportRun, file,
                   importOutcome, merge, dbPromise, conn, awaits,
                   pendingUpdates, clearRun, opRun, opPromise, dataChanged>>

ReminderNext ==
    \/ \E reminder \in ReminderInputs : addReminder(reminder)
    \/ clearOldReminders
    \/ tick

ReminderSpec == Init /\ [][ReminderNext]_vars

\* ------------------------------------------------------------------------
\* performDBOperation, event by event: addExpense, updateExpense,
\* deleteExpense
\* ------------------------------------------------------------------------

\* lines 203-210: the writes on the expenses store
ExpenseWrites ==
    {[kind |-> "add", rec |-> [id |-> NoId, title |-> "rent", amount |-> a]]
        : a \in {7, 9}}
    \cup {[kind |-> "put", rec |-> [id |-> k, title |-> "rent", amount |-> 8]]
            : k \in 1..MaxOtherKey}
    \cup {[kind |-> "delete", rec |-> [id |-> k, title |-> "", amount |-> 0]]
            : k \in 1..MaxOtherKey}

\* line 182: request = operation(store)
operation(tx, w) ==
    CASE w.kind = "add" -> Add(tx, "expenses", w.rec)
      [] w.kind = "put" -> Put(tx, "expenses", w.rec)
      [] w.kind = "delete" -> Delete(tx, "expenses", w.rec.id)

\* lines 176-197: the transaction is opened, the request placed and the
\* handlers set; the promise is pending
performDBOperation(w) ==
    /\ ~opRun.active
    /\ operation(BeginTx(db, keyGen), w).gen["expenses"] <= MaxOtherKey + 1
    /\ opRun' = [active |-> TRUE, succeeded |-> FALSE,
                 tx |-> operation(BeginTx(db, keyGen), w)]
    /\ opPromise' = "pending"
    /\ dataChanged' = 0
    /\ UNCHANGED <<settleVars, db, keyGen, pageTrip, exportRun, file,
                   importOutcome, merge, dbPromise, conn, awaits,
                   pendingUpdates, clearRun, now>>

\* line 194: request.onsuccess = () => resolve(request.result)
requestSuccess ==
    /\ opRun.active
    /\ ~opRun.succeeded
    /\ opRun' = [opRun EXCEPT !.succeeded = TRUE]
    /\ opPromise' = "resolved"
    /\ dataChanged' = 0
    /\ UNCHANGED <<settleVars, db, keyGen, pageTrip, exportRun, file,
                   importOutcome, merge, dbPromise, conn, awaits,
                   pendingUpdates, clearRun, now>>

\* lines 188-192: the transaction has committed - transaction.oncomplete
transactionComplete ==
    /\ opRun.active
    /\ opRun.succeeded
    /\ Commit(opRun.tx)
    /\ opRun' = NoOp
    /\ UNCHANGED <<settleVars, pageTrip, exportRun, file, importOutcome,
                   merge, dbPromise, conn, awaits, pendingUpdates, clearRun,
                   now, opPromise>>

\* the transaction aborts: the commit fails (quota, disk error) or the
\* page goes away before it.  A request that had not succeeded gets an
\* error event (lines 195-196: reject); a settled promise stays as it is.
transactionAbort ==
    /\ opRun.active
    /\ opRun' = NoOp
    /\ opPromise' = IF opRun.succeeded THEN opPromise ELSE "rejected"
    /\ dataChanged' = 0
    /\ UNCHANGED <<settleVars, db, keyGen, pageTrip, exportRun, file,
                   importOutcome, merge, dbPromise, conn, awaits,
                   pendingUpdates, clearRun, now>>

WriteNext ==
    \/ \E w \in ExpenseWrites : performDBOperation(w)
    \/ requestSuccess
    \/ transactionComplete
    \/ transactionAbort

WriteSpec == Init /\ [][WriteNext]_vars

\* amounts below, at and above the tolerance-sized shares
Amounts == {1, 2, MaxAmount}

ExpenseInputs == [payerName : Payers, amount : Amounts]

\* ------------------------------------------------------------------------
\* Specification of the settlement engine: every roster, every expense list
\* ------------------------------------------------------------------------
SettleInit ==
    /\ members \in SeqsUpTo(Names, MaxMembers)
    /\ expenses = << >>
    /\ settlements = calculateSettlements(members, << >>)
    /\ StoreInit

\* page.tsx 151-154: one more expense in the list, settlements recomputed
SettleExpense ==
    /\ Len(expenses) < MaxExpenses
    /\ \E e \in ExpenseInputs :
          /\ expenses' = Append(expenses, e)
          /\ settlements' = calculateSettlements(members, expenses')
    /\ UNCHANGED <<members, storeVars>>

SettleNext == SettleExpense

SettleSpec == SettleInit /\ [][SettleNext]_vars

\* expenses whose payer may be any string: a roster name, a name on no
\* roster, a name Object.prototype has a property for
PayerInputs == [payerName : Payers \cup InheritedKeys, amount : {2, MaxAmount}]

PayerExpense ==
    /\ Len(expenses) < MaxExpenses
    /\ \E e \in PayerInputs :
          /\ expenses' = Append(expenses, e)
          /\ settlements' = calculateSettlements(members, expenses')
    /\ UNCHANGED <<members, storeVars>>

PayerNext == PayerExpense

PayerSpec == SettleInit /\ [][PayerNext]_vars

\* ------------------------------------------------------------------------
\* Quantities the settlement properties are stated in, taken from the
\* input alone (all money times n = Len(members), as above)
\* ------------------------------------------------------------------------
RosterSize == Len(members)

DistinctNames == \A i, j \in 1..RosterSize : members[i] = members[j] => i = j

\* amount paid by a member: the expenses carrying the member's name
PaidBy(m) == SumAmounts(SelectSeq(expenses, LAMBDA e : e.payerName = m))

\* matched spend: the expenses whose payer is on the roster
MatchedTotal ==
    SumAmounts(SelectSeq(expenses, LAMBDA e : e.payerName \in Range(members)))

\* balance of roster entry i = paid - matched spend / n
Balance(i) == RosterSize * PaidBy(members[i]) - MatchedTotal

RECURSIVE SumBalances(_, _)
SumBalances(i, sign) ==
    IF i = 0 THEN 0
    ELSE (IF sign * Balance(i) > 0 THEN sign * Balance(i) ELSE 0)
         + SumBalances(i - 1, sign)

SumPositiveBalances == SumBalances(RosterSize, 1)

TransferSum == SumAmounts(settlements)

NumDebtors == Cardinality({i \in 1..RosterSize : Balance(i) < -(RosterSize * Tolerance)})

NumCreditors == Cardinality({i \in 1..RosterSize : Balance(i) > RosterSize * Tolerance})

AllSettled == \A i \in 1..RosterSize : Abs(Balance(i)) <= RosterSize * Tolerance

\* balance of roster entry i once every returned transfer has been made
Residual(i) ==
    Balance(i)
    + SumAmounts(SelectSeq(settlements, LAMBDA t : t.from = members[i]))
    - SumAmounts(SelectSeq(settlements, LAMBDA t : t.to = members[i]))

\* the roster entries that paid something
PayingEntries == {i \in 1..RosterSize : PaidBy(members[i]) > 0}

\* ------------------------------------------------------------------------
\* Settlement properties
\* ------------------------------------------------------------------------

\* C1 as stated: for every non-empty roster the transfers sum to the sum of
\* the positive balances, within 0.01.
C1_TransferSumEqualsImbalance ==
    RosterSize > 0 =>
        Abs(TransferSum - SumPositiveBalances) <= RosterSize * Tolerance

\* C1 amended: the transfers never sum to more than the positive balances,
\* and for a roster of distinct names they fall short of them by at most
\* 0.01 per roster member (balances within 0.01 are left unsettled).
C1_TransferSumWithinRosterTolerance ==
    RosterSize > 0 =>
        /\ TransferSum <= SumPositiveBalances
        /\ DistinctNames =>
              SumPositiveBalances - TransferSum
                  <= RosterSize * (RosterSize * Tolerance)

C1_Witness ==
    /\ DistinctNames
    /\ Len(settlements) >= 1
    /\ SumPositiveBalances - TransferSum > 0

\* C2 as stated: after the returned transfers every roster member's balance
\* is within 0.01 of zero.
C2_TransfersEqualize ==
    \A i \in 1..RosterSize : Abs(Residual(i)) <= RosterSize * Tolerance

\* C2 amended: for a roster of distinct names, after the returned transfers
\* every member's balance is within 0.01 times the roster length of zero.
C2_TransfersEqualizeWithinRosterTolerance ==
    DistinctNames =>
        \A i \in 1..RosterSize :
            Abs(Residual(i)) <= RosterSize * (RosterSize * Tolerance)

C2_Witness ==
    /\ DistinctNames
    /\ Len(settlements) >= 1
    /\ \E i \in 1..RosterSize : Residual(i) # 0

\* C3: no returned transfer has from = to, whether or not the roster's
\* names are distinct.
C3_NoSelfTransfer ==
    \A k \in 1..Len(settlements) : settlements[k].from # settlements[k].to

C3_Witness ==
    /\ ~DistinctNames
    /\ Len(settlements) >= 1

\* C4: at most debtors + creditors - 1 transfers are returned, and none
\* when there is no debtor or no creditor.
C4_TransferCountBound ==
    /\ (NumDebtors = 0 \/ NumCreditors = 0) => settlements = << >>
    /\ (NumDebtors > 0 /\ NumCreditors > 0) =>
          Len(settlements) <= NumDebtors + NumCreditors - 1

C4_Witness ==
    /\ NumDebtors + NumCreditors = 3
    /\ Len(settlements) = 2

\* C5: the result is empty whenever every balance is within 0.01 of zero,
\* in particular for a roster of one, for no expenses and for no roster.
C5_EmptyWhenSettled ==
    /\ AllSettled => settlements = << >>
    /\ RosterSize = 1 => settlements = << >>
    /\ expenses = << >> => settlements = << >>
    /\ RosterSize = 0 => settlements = << >>

C5_Witness ==
    /\ RosterSize >= 2
    /\ MatchedTotal > 0
    /\ AllSettled
    /\ settlements = << >>

\* the single payer of a roster of n >= 2 distinct names, who paid P > 0
SinglePayer(p) ==
    /\ DistinctNames
    /\ RosterSize >= 2
    /\ PayingEntries = {p}

\* n-1 transfers, one from each other member to p, each of P / n
OneTransferFromEachOther(p) ==
    /\ Len(settlements) = RosterSize - 1
    /\ \A i \in (1..RosterSize) \ {p} :
          \E k \in 1..Len(settlements) :
              settlements[k] = [from |-> members[i], to |-> members[p],
                                amount |-> PaidBy(members[p])]

\* C6 as stated: when one member of n >= 2 distinct members paid the whole
\* matched spend P, there are exactly n-1 transfers of P/n to the payer.
C6_SinglePayerTransfers ==
    \A p \in 1..RosterSize : SinglePayer(p) => OneTransferFromEachOther(p)

\* C6 amended: the same, provided the share P/n exceeds 0.01.
C6_SinglePayerTransfersAboveTolerance ==
    \A p \in 1..RosterSize :
        (SinglePayer(p) /\ PaidBy(members[p]) > RosterSize * Tolerance)
            => OneTransferFromEachOther(p)

C6_Witness ==
    /\ RosterSize = 3
    /\ \E p \in 1..RosterSize :
          /\ SinglePayer(p)
          /\ PaidBy(members[p]) > RosterSize * Tolerance
          /\ Len(settlements) = 2

\* ------------------------------------------------------------------------
\* Quantities the import properties are stated in
\* ------------------------------------------------------------------------
Ids(S) == {r.id : r \in S}

TripFields(t) == <<t.name, t.members, t.status>>

TripExpenseFields(e) == <<e.payerName, e.amount, e.description, e.date>>

\* what a step adds to the trips and to the trip expenses
NewTrips == db'["trips"] \ db["trips"]

NewTripExpenses == db'["trip_expenses"] \ db["trip_expenses"]

TripStoresKept ==
    /\ db["trips"] \subseteq db'["trips"]
    /\ db["trip_expenses"] \subseteq db'["trip_expenses"]

OtherStoresUnchanged ==
    \A n \in StoreNames \ {"trips", "trip_expenses"} : db'[n] = db[n]

\* the added expenses are the file's, one for one, all under trip newId
MatchOneToOne(items, newId) ==
    /\ Cardinality(NewTripExpenses) = Len(items)
    /\ \A e \in NewTripExpenses : e.tripId = newId
    /\ \A v \in {TripExpenseFields(e) : e \in NewTripExpenses}
                \cup {TripExpenseFields(items[i].val) : i \in DOMAIN items} :
          Cardinality({e \in NewTripExpenses : TripExpenseFields(e) = v})
            = Cardinality({i \in DOMAIN items : TripExpenseFields(items[i].val) = v})

RoundTrip(data) ==
    /\ TripStoresKept
    /\ OtherStoresUnchanged
    /\ \E n \in NewTrips :
          /\ NewTrips = {n}
          /\ n.id \notin Ids(db["trips"])
          /\ n.id # data.trip.val.id
          /\ TripFields(n) = TripFields(data.trip.val)
          /\ MatchOneToOne(data.expenses.items, n.id)

\* ------------------------------------------------------------------------
\* Import properties
\* ------------------------------------------------------------------------

\* C7: importing the file exportTrip wrote for trip T adds exactly one
\* trip, under an id that differs from T's and from every existing trip's,
\* with T's name, members and status, and adds the file's expenses one for
\* one under the new trip's id; nothing that was stored changes.
C7_ExportImportRoundTrip ==
    [][\A data \in file : uploadTrip(data) => RoundTrip(data)]_vars

C7_Witness ==
    /\ importOutcome = "resolved"
    /\ \E t, n \in db["trips"] :
          /\ t.id < n.id
          /\ TripFields(t) = TripFields(n)
          /\ \E e, f \in db["trip_expenses"] :
                /\ e.tripId = t.id
                /\ f.tripId = n.id
                /\ TripExpenseFields(e) = TripExpenseFields(f)

\* a whole-database file every part of which has the expected shape
WellFormedData(data) ==
    /\ \A a \in {data.expenses, data.categories, data.reminders,
                 data.savingsTransactions, data.trips, data.trip_expenses} :
          a.kind \in {"array", "absent"} /\ ~HasNull(a.items)
    /\ \A i, j \in DOMAIN data.categories.items :
          data.categories.items[i].val.name = data.categories.items[j].val.name
              => i = j

\* the file's trips whose id is the id of a stored trip
Colliding(data) ==
    {i \in DOMAIN data.trips.items :
        data.trips.items[i].val.id \in Ids(db["trips"])}

CollisionSafe(data) ==
    /\ TripStoresKept
    /\ \A i \in Colliding(data) :
          LET fileTrip == data.trips.items[i].val
              fileExpenses == data.trip_expenses.items
          IN \E n \in NewTrips :
                /\ n.id \notin Ids(db["trips"])
                /\ TripFields(n) = TripFields(fileTrip)
                /\ \A j \in DOMAIN fileExpenses :
                      fileExpenses[j].val.tripId = fileTrip.id =>
                          \E e \in NewTripExpenses :
                              /\ e.tripId = n.id
                              /\ TripExpenseFields(e)
                                    = TripExpenseFields(fileExpenses[j].val)
    /\ \A e \in NewTripExpenses : e.tripId \notin Ids(db["trips"])

KeysFromGenerator ==
    \A n \in StoreNames \ {"settings"} :
        \A r \in db'[n] \ db[n] : r.id >= keyGen[n] /\ r.id < keyGen'[n]

\* C9 as stated: importData only appends - every record of every
\* collection is still there, unchanged, and every record added has a key
\* assigned by the store.
C9_ImportDataOnlyAppends ==
    [][\A data \in DataFiles :
          uploadData(data) =>
              /\ \A n \in StoreNames : db[n] \subseteq db'[n]
              /\ KeysFromGenerator]_vars

\* the settings singleton after an import: as before, or the record of
\* the file laid over it, under id 1
SettingsMerged(data) ==
    \/ db'["settings"] = db["settings"]
    \/ /\ data.settings.present
       /\ \E old \in db["settings"] : \E new \in db'["settings"] :
             /\ db'["settings"] = {new}
             /\ new.id = 1
             /\ \A f \in (DOMAIN data.settings.val) \ {"id"} :
                   new[f] = data.settings.val[f]
             /\ \A f \in (DOMAIN old) \ (DOMAIN data.settings.val) :
                   new[f] = old[f]

\* C9 amended: importData only appends to every collection but settings -
\* each of their records is still there, unchanged, and every record added
\* has a key assigned by the store; the settings singleton is overwritten,
\* field by field, by the file's settings (and is overwritten whenever the
\* import resolves with settings in the file).
C9_ImportDataAppendsButSettings ==
    [][\A data \in DataFiles :
          uploadData(data) =>
              /\ \A n \in StoreNames \ {"settings"} : db[n] \subseteq db'[n]
              /\ KeysFromGenerator
              /\ SettingsMerged(data)
              /\ (importOutcome' = "resolved" /\ data.settings.present)
                    => \A new \in db'["settings"] :
                          new.userName = data.settings.val.userName]_vars

C9_Witness ==
    /\ importOutcome = "resolved"
    /\ Cardinality(db["expenses"]) = 2
    /\ db["reminders"] # {}
    /\ \E c \in db["categories"] : c.name = "Pets"
    /\ \A r \in db["settings"] : r.userName = ForeignSettings.userName

\* C10: an import that fails persists nothing - after an importTrip or an
\* importData whose promise does not resolve the store is what it was, and
\* a merge into the current trip that fails has inserted no expense.
C10_FailedImportPersistsNothing ==
    [][/\ \A data \in ForeignTripFiles :
             (uploadTrip(data) /\ importOutcome' # "resolved") => db' = db
       /\ \A data \in DataFiles :
             (uploadData(data) /\ importOutcome' # "resolved") => db' = db
       /\ merge'.outcome = "failed" => merge'.inserted = 0]_vars

\* C11: one turn of the merge into the current trip adds exactly one trip
\* expense, under the key the store assigns (no stored expense has it),
\* with tripId the current trip's id and the file's payerName, amount,
\* description and date; the trips, the stored trip expenses and every
\* other collection stay as they are.
C11_MergeIntoCurrentTrip ==
    [][(mergeStep /\ ~Head(merge.queue).null) =>
          /\ db'["trips"] = db["trips"]
          /\ db["trip_expenses"] \subseteq db'["trip_expenses"]
          /\ OtherStoresUnchanged
          /\ \E e \in NewTripExpenses :
                /\ NewTripExpenses = {e}
                /\ e.id = keyGen["trip_expenses"]
                /\ e.id \notin Ids(db["trip_expenses"])
                /\ e.tripId = pageTrip.id
                /\ TripExpenseFields(e)
                      = TripExpenseFields(Head(merge.queue).val)]_vars

C11_Witness ==
    /\ merge.outcome = "done"
    /\ merge.inserted = 2
    /\ merge.tripId # ForeignTrip.id
    /\ Cardinality({e \in db["trip_expenses"] :
                       e.tripId = merge.tripId /\ e.description = "hotel"}) = 2

\* C13: deleteTrip(id) removes the trip with that id and nothing else:
\* the trip expenses - those of the deleted trip among them - and every
\* other collection are what they were.
C13_DeleteTripOnlyRemovesTrip ==
    [][\A id \in 1..MaxTripKey :
          deleteTrip(id) =>
              /\ db'["trips"] = {t \in db["trips"] : t.id # id}
              /\ db'["trips"] # db["trips"]
              /\ db'["trip_expenses"] = db["trip_expenses"]
              /\ OtherStoresUnchanged]_vars

C13_Witness ==
    \E e \in db["trip_expenses"] :
        /\ e.tripId \notin Ids(db["trips"])
        /\ e.tripId < keyGen["trips"]

\* the collections clearAllData clears hold no record
ClearedStoresEmpty(d) ==
    \A n \in {"expenses", "categories", "reminders", "settings",
               "savings_transactions"} : d[n] = {}

\* the categories are the default categories, each name once
ExactlyDefaultCategories(d) ==
    /\ {c.name : c \in d["categories"]} = Range(defaultCategories)
    /\ Cardinality(d["categories"]) = Len(defaultCategories)

\* C12: clearAllData's clearing transaction empties expenses, categories,
\* reminders, settings and savings_transactions and leaves trips and
\* trip_expenses as they are; its repopulation, run on the stores as the
\* clearing left them, leaves expenses, reminders and savings_transactions
\* empty, categories with exactly the default names, settings with exactly
\* the default record, and trips and trip_expenses as they were.
C12_ClearAllData ==
    [][/\ clearAllData =>
             /\ ClearedStoresEmpty(db')
             /\ db'["trips"] = db["trips"]
             /\ db'["trip_expenses"] = db["trip_expenses"]
       /\ (clearAllDataRepopulate /\ ClearedStoresEmpty(db)) =>
             /\ \A n \in {"expenses", "reminders", "savings_transactions"} :
                   db'[n] = {}
             /\ ExactlyDefaultCategories(db')
             /\ db'["settings"] = {DefaultSettings}
             /\ db'["trips"] = db["trips"]
             /\ db'["trip_expenses"] = db["trip_expenses"]]_vars

C12_Witness ==
    /\ ~clearRun
    /\ ExactlyDefaultCategories(db)
    /\ \A c \in db["categories"] : c.id > Len(defaultCategories)
    /\ db["settings"] = {DefaultSettings}
    /\ db["expenses"] = {}
    /\ keyGen["expenses"] > 1
    /\ db["trips"] # {}
    /\ db["trip_expenses"] # {}

\* C14: however many operations call getDB before the open has completed,
\* indexedDB.open is called once in the page session, the initialization
\* it starts runs once, and every one of the operations is promised the
\* same connection.
C14_SingleOpen ==
    /\ Len(conn) <= 1
    /\ Cardinality({k \in DOMAIN conn : conn[k] = "open"}) <= 1
    /\ \A c \in Callers : awaits[c] # 0 => (Len(conn) = 1 /\ awaits[c] = dbPromise)
    /\ \A c, d \in Callers :
          (awaits[c] # 0 /\ awaits[d] # 0) => awaits[c] = awaits[d]

C14_Witness ==
    /\ Opened
    /\ Cardinality({c \in Callers : awaits[c] # 0}) >= 2
    /\ Len(conn) = 1

\* what an open leaves in the categories and how many settings records
OpenKeepsCategories ==
    /\ \A i \in DOMAIN defaultCategories :
          Cardinality({c \in db'["categories"] :
                          c.name = defaultCategories[i]}) = 1
    /\ db["categories"] \subseteq db'["categories"]
    /\ Cardinality(db'["settings"]) = 1
    /\ \A r \in db'["settings"] : r.id = 1

\* C15 as stated: after every open each default category name is stored
\* exactly once, every category stored before is still stored, and settings
\* holds exactly one record, with id 1, which is the default record if and
\* only if no settings record was stored before.
C15_OpenEnsuresDefaults ==
    [][\A k \in Callers :
          openSuccess(k) =>
              /\ OpenKeepsCategories
              /\ (db'["settings"] = {DefaultSettings})
                    <=> (db["settings"] = {})]_vars

\* C15 amended: ... and settings holds exactly one record, with id 1: the
\* default record if no settings record was stored before, and otherwise
\* the record that was stored before, unchanged.
C15_OpenEnsuresDefaultsOrKeeps ==
    [][\A k \in Callers :
          openSuccess(k) =>
              /\ OpenKeepsCategories
              /\ db'["settings"] = IF db["settings"] = {}
                                   THEN {DefaultSettings}
                                   ELSE db["settings"]]_vars

C15_Witness ==
    /\ Opened
    /\ dataChanged = 0
    /\ importOutcome = "none"
    /\ db["settings"] = {DefaultSettings}
    /\ \E c \in db["categories"] : c.name = "Pets"
    /\ \A c \in db["categories"] : c.id > Len(defaultCategories)
    /\ \A i \in DOMAIN defaultCategories :
          \E c \in db["categories"] : c.name = defaultCategories[i]

\* C16: once the database has been initialized the settings store holds
\* the record with id 1 in every state, and no getSettings (here: the one
\* updateSettings starts with) finds it absent.
C16_SettingsSingletonAlwaysPresent ==
    /\ \E r \in db["settings"] : r.id = 1
    /\ \A u \in pendingUpdates : u.found # {}

\* C17: once the database has been initialized every default category
\* name is stored in categories in every state.
C17_DefaultCategoriesAlwaysPresent ==
    \A i \in DOMAIN defaultCategories :
        \E c \in db["categories"] : c.name = defaultCategories[i]

\* C18: deleteCategory(id) of a stored category with a default name is
\* rejected and leaves the store as it is; of a stored category with
\* another name it resolves and removes that category and nothing else.
C18_DeleteCategory ==
    [][\A id \in 1..MaxCategoryKey :
          deleteCategory(id) =>
              \A c \in db["categories"] :
                  c.id = id =>
                      IF c.name \in Range(defaultCategories)
                      THEN /\ importOutcome' = "rejected"
                           /\ db' = db
                      ELSE /\ importOutcome' = "resolved"
                           /\ db'["categories"] = db["categories"] \ {c}
                           /\ \A n \in StoreNames \ {"categories"} :
                                 db'[n] = db[n]]_vars

C18_Witness ==
    /\ importOutcome = "rejected"
    /\ keyGen["trips"] = 1
    /\ keyGen["categories"] > Len(defaultCategories) + 1
    /\ ExactlyDefaultCategories(db)

C20_UpdateSettingsKeepsOtherFields ==
    [][\A u \in pendingUpdates :
          updateSettingsPut(u) =>
              \A old \in db["settings"] : \A new \in db'["settings"] :
                  \A f \in (DOMAIN old) \ (DOMAIN u.patch) :
                      f \in DOMAIN new /\ new[f] = old[f]]_vars

\* ------------------------------------------------------------------------
\* Reminder sweep
\* ------------------------------------------------------------------------

\* the instant a stored reminder is due
Due(r) == parseDate(r.date)

\* the reminders due before the current day has started
Overdue == {r \in db["reminders"] : Due(r) < startOfDay(now)}

\* C21: one sweep deletes every non-recurring reminder that is due before
\* the start of the current day and leaves unchanged every reminder that
\* is due at or after the start of the current day
C21_SweepDeletesOverdue ==
    [][clearOldReminders =>
        \A r \in db["reminders"] :
            /\ (r \in Overdue /\ ~r.isRecurring)
                  => r.id \notin {q.id : q \in db'["reminders"]}
            /\ r \notin Overdue => r \in db'["reminders"]]_vars

\* a sweep has run over two reminders: the one due at the start of today
\* is kept, the other is gone
C21_Witness ==
    /\ dataChanged = 1
    /\ keyGen["reminders"] = 3
    /\ \E r \in db["reminders"] :
          /\ db["reminders"] = {r}
          /\ ~r.isRecurring
          /\ r.lastTriggered = NoDate
          /\ Due(r) = startOfDay(now)

\* the recurring reminders a sweep advances
OverdueRecurring ==
    {r \in Overdue : r.isRecurring /\ r.repeatInterval > 0}

\* C22 as stated: after one sweep, every recurring reminder with a positive
\* repeatInterval that was due at d before the start of the current day
\* has lastTriggered = d and is due at d plus repeatInterval days
C22_SweepAdvancesOnce ==
    [][clearOldReminders =>
        \A r \in OverdueRecurring :
            \E q \in db'["reminders"] :
                /\ q.id = r.id
                /\ q.lastTriggered = r.date
                /\ Due(q) = Due(r) + r.repeatInterval * DayLen]_vars

\* C22: after one sweep, every recurring reminder with a positive
\* repeatInterval that was due at d before the start of the current day is
\* due at d plus a positive number of whole intervals, at the first such
\* date that is not before the start of the current day, and its
\* lastTriggered is one interval before its new due date
C22_SweepAdvancesPastToday ==
    [][clearOldReminders =>
        \A r \in OverdueRecurring :
            \E q \in db'["reminders"] :
                LET step == r.repeatInterval * DayLen
                IN /\ q.id = r.id
                   /\ Due(q) > Due(r)
                   /\ (Due(q) - Due(r)) % step = 0
                   /\ Due(q) >= startOfDay(now)
                   /\ Due(q) - step < startOfDay(now)
                   /\ q.lastTriggered # NoDate
                   /\ parseDate(q.lastTriggered) = Due(q) - step
                   /\ [q EXCEPT !.date = r.date, !.lastTriggered = r.lastTriggered] = r]_vars

\* a sweep has advanced a reminder by more than one interval: its
\* lastTriggered lies behind every due date a user enters
C22_Witness ==
    \E r \in db["reminders"] :
        /\ r.isRecurring
        /\ r.lastTriggered # NoDate
        /\ \A t \in ReminderDates : parseDate(r.lastTriggered) > t
        /\ Due(r) >= startOfDay(now)

\* C23: no sweep deletes a reminder whose isRecurring flag is true,
\* whatever its repeatInterval is: every reminder that was recurring before
\* a sweep is in the collection after it
C23_SweepNeverDeletesRecurring ==
    [][clearOldReminders =>
        \A r \in db["reminders"] :
            r.isRecurring => r.id \in {q.id : q \in db'["reminders"]}]_vars

\* C26: clearOldReminders dispatches exactly one dataChanged event when the
\* sweep deleted or advanced at least one reminder and none when no
\* reminder was overdue, and what it announces is committed: the event
\* comes with a changed reminders collection, no event with an unchanged one
C26_SweepNotification ==
    [][clearOldReminders =>
        /\ Overdue # {} => dataChanged' = 1 /\ db'["reminders"] # db["reminders"]
        /\ Overdue = {} => dataChanged' = 0 /\ db' = db]_vars

\* the step that emptied the reminders collection, a sweep, has dispatched
\* one event
C26_Witness ==
    /\ dataChanged = 1
    /\ keyGen["reminders"] > 1
    /\ db["reminders"] = {}

\* ------------------------------------------------------------------------
\* Order of the inserts of an import
\* ------------------------------------------------------------------------

\* the (trip, expense) pairs of a trip file and of a whole-database file
TripFilePairs(data) ==
    IF data.trip.null \/ data.expenses.kind # "array" THEN {}
    ELSE {<<TripFields(data.trip.val), TripExpenseFields(data.expenses.items[i].val)>>
            : i \in {k \in DOMAIN data.expenses.items : ~data.expenses.items[k].null}}

DataFilePairs(data) ==
    IF data.trips.kind # "array" \/ data.trip_expenses.kind # "array" THEN {}
    ELSE LET ts == data.trips.items
             es == data.trip_expenses.items
         IN {<<TripFields(ts[i].val), TripExpenseFields(es[j].val)>>
               : <<i, j>> \in {x \in (DOMAIN ts) \X (DOMAIN es) :
                                  /\ ~ts[x[1]].null
                                  /\ ~es[x[2]].null
                                  /\ es[x[2]].val.tripId = ts[x[1]].val.id}}

\* every add to trip_expenses comes behind the add of a trip in the same
\* transaction whose returned key it carries as tripId, and the two are a
\* trip and one of its expenses in the file
ParentFirst(log, pairs) ==
    \A k \in DOMAIN log :
        log[k].store = "trip_expenses" =>
            \E j \in 1..(k - 1) :
                /\ log[j].store = "trips"
                /\ log[j].rec.id = log[k].rec.tripId
                /\ <<TripFields(log[j].rec), TripExpenseFields(log[k].rec)>> \in pairs

\* C24: in importTrip and in importData every insert of a trip expense is
\* issued after the insert of its parent trip has returned the new
\* identifier, in the same transaction, and carries that identifier as
\* its tripId
C24_ParentInsertedFirst ==
    [][/\ \A data \in ForeignTripFiles :
            uploadTrip(data) =>
                ParentFirst(importTrip(db, keyGen, data).log, TripFilePairs(data))
       /\ \A data \in DataFiles :
            uploadData(data) =>
                ParentFirst(importData(db, keyGen, data).log, DataFilePairs(data))]_vars

\* a whole-database import of two trips with one expense each has
\* committed: each expense is stored under the new key of its own trip
C24_Witness ==
    /\ importOutcome = "resolved"
    /\ db["expenses"] = {}
    /\ Cardinality(db["trips"]) = 2
    /\ \E t, n \in db["trips"] :
          /\ t.name = "t2"
          /\ n.name = "t1"
          /\ \E e, f \in db["trip_expenses"] :
                /\ db["trip_expenses"] = {e, f}
                /\ e.tripId = t.id /\ e.payerName = "c"
                /\ f.tripId = n.id /\ f.payerName = "b"

\* ------------------------------------------------------------------------
\* Expenses of payers that are not on the roster
\* ------------------------------------------------------------------------

\* the expenses whose payer is on the roster
MatchedExpenses == SelectSeq(expenses, LAMBDA e : e.payerName \in Range(members))

\* C25: expenses whose payerName is no roster member have no effect on the
\* settlement: it is the settlement of the roster with the expenses of
\* roster members alone
C25_NonRosterPayersIgnored ==
    settlements = calculateSettlements(members, MatchedExpenses)

\* ------------------------------------------------------------------------
\* Identifiers of deleted trips
\* ------------------------------------------------------------------------

\* the trip keys handed out so far under which no trip is stored: the
\* keys of the trips deleteTrip has removed
DeletedTripIds ==
    {id \in 1..(keyGen["trips"] - 1) : id \notin Ids(db["trips"])}

\* a step of an operation other than an import
NonImportStep ==
    \/ \E name \in TripNames : addTrip(name, <<"a", "b">>)
    \/ \E id \in 1..MaxTripKey : loadData(id)
    \/ handleToggleStatus
    \/ \E id \in 1..MaxTripKey : deleteTrip(id)
    \/ \E payer \in {"a", "b"} : addTripExpense(payer)
    \/ \E id \in 1..MaxTripExpenseKey : deleteTripExpense(id)
    \/ exportGetTrip
    \/ exportGetTripExpenses

\* C27: once deleteTrip(id) has committed, no later operation other than
\* an import makes a trip with that identifier exist again - neither a
\* status update from a copy read before the delete nor a newly created
\* trip - so the expenses the delete left behind stay without a trip
C27_DeletedTripStaysDeleted ==
    [][NonImportStep =>
        \A id \in DeletedTripIds : id \notin Ids(db'["trips"])]_vars

\* ------------------------------------------------------------------------
\* Promise and commit of a single write
\* ------------------------------------------------------------------------

\* C28: the promise of a write through performDBOperation resolves only
\* after the write's transaction has committed: while the promise is
\* resolved, no transaction of that write is still open whose changes are
\* not in the store
C28_ResolvedOnlyAfterCommit ==
    opPromise = "resolved" => ~opRun.active

\* ------------------------------------------------------------------------
\* Category names of an import
\* ------------------------------------------------------------------------

\* every list of the file is an array of records, or absent
WellShapedData(data) ==
    \A a \in {data.expenses, data.categories, data.reminders,
               data.savingsTransactions, data.trips, data.trip_expenses} :
        a.kind \in {"array", "absent"} /\ ~HasNull(a.items)

\* the names in the file's categories list
CategoryNamesOf(data) ==
    {data.categories.items[i].val.name : i \in DOMAIN data.categories.items}

\* a name occurs twice in the file's categories list
RepeatsCategory(data) ==
    \E i, j \in DOMAIN data.categories.items :
        i # j /\ data.categories.items[i].val.name = data.categories.items[j].val.name

\* the import has committed and every name of the file is stored once
CategoriesImported(data) ==
    /\ importOutcome' = "resolved"
    /\ \A name \in CategoryNamesOf(data) :
          Cardinality({c \in db'["categories"] : c.name = name}) = 1

\* C29: importData neither fails nor duplicates because of category names:
\* for a well-formed file whose categories list has names that are already
\* stored or that are repeated in the file, the import commits and each of
\* the names is stored exactly once afterwards
C29_ImportCategoryNames ==
    [][\A data \in DataFiles :
          (uploadData(data) /\ WellShapedData(data) /\ data.categories.kind = "array")
              => CategoriesImported(data)]_vars

\* the same for the files that repeat no name
StoredCategoryNamesImported ==
    [][\A data \in DataFiles :
          (uploadData(data) /\ WellShapedData(data) /\ data.categories.kind = "array"
             /\ ~RepeatsCategory(data))
              => CategoriesImported(data)]_vars

\* ------------------------------------------------------------------------
\* Termination of the matching loop
\* ------------------------------------------------------------------------

\* lines 37-47: the loop's state when it is entered
LoopEntry ==
    LET bals == balances(members, expenses)
    IN [debtors |-> debtors(bals, RosterSize),
        creditors |-> creditors(bals, RosterSize),
        dIndex |-> 1, cIndex |-> 1, settlements |-> << >>]

\* line 49: the loop's condition
LoopRuns(st) ==
    st.dIndex <= Len(st.debtors) /\ st.cIndex <= Len(st.creditors)

\* every iteration from st on advances dIndex or cIndex
RECURSIVE EveryIterationAdvances(_)
EveryIterationAdvances(st) ==
    LoopRuns(st) =>
        LET next == LoopStep(st, RosterSize)
        IN /\ next.dIndex >= st.dIndex
           /\ next.cIndex >= st.cIndex
           /\ next.dIndex > st.dIndex \/ next.cIndex > st.cIndex
           /\ EveryIterationAdvances(next)

\* the number of iterations from st on
RECURSIVE Iterations(_)
Iterations(st) ==
    IF LoopRuns(st) THEN 1 + Iterations(LoopStep(st, RosterSize)) ELSE 0

\* C30: calculateSettlements terminates: every iteration of its matching
\* loop advances the debtor index or the creditor index, so the loop runs
\* at most (debtors + creditors) times
C30_LoopTerminates ==
    RosterSize > 0 =>
        /\ EveryIterationAdvances(LoopEntry)
        /\ Iterations(LoopEntry) <= NumDebtors + NumCreditors

\* a roster of three on which the loop runs twice, once for each debtor
\* of the one creditor
C30_Witness ==
    /\ RosterSize = 3
    /\ NumDebtors = 2
    /\ NumCreditors = 1
    /\ Iterations(LoopEntry) = 2

====
